---- MODULE Spec2Model ----
\* A model of qq.Scaler (client/js/scaling/scaler.js): the construction of a scaler,
\* getFileRecords, the lazy producers it hands out (_generateScaledImage) and the
\* callbacks of the rendering engine and of the FileReader that drive them.
\*
\* JavaScript strings are modelled as sequences of lexemes ("image/jpeg" is
\* <<"image", "/", "jpeg">>), so that split, indexOf and substr act on them as they
\* act on the characters of the string.  Undefined is a value that is no string.
EXTENDS Integers, Sequences, FiniteSets, TLC

VARIABLES
    options,            \* the options record as the caller wrote it, before construction
    spec,               \* the options record the caller handed over, as construction left it
    supportedFeatures,  \* qq.supportedFeatures: the platform's capability flags
    scaler,             \* the variables the constructor closes over, and `enabled`
    uniqueIds,          \* how many identifiers qq.getUniqueId has handed out
    returned,           \* the calls of getFileRecords so far: arguments and returned list
    invocations,        \* one entry per call of _generateScaledImage
    promises,           \* the qq.Promise objects created as scalingEffort
    probe               \* the last call of a pure helper made on its own, and its result

vars == <<options, spec, supportedFeatures, scaler, uniqueIds, returned, invocations, promises, probe>>

----------------------------------------------------------------------------
\* Bounds of the model

MaxSizes == 2           \* longest spec.sizes
MaxCalls == 3           \* calls the caller makes: of getFileRecords and of producers

----------------------------------------------------------------------------
\* JavaScript values

Undefined == <<"#undefined">>

Truthy(v) == v # Undefined /\ v # <<>>

JPEG == <<"image", "/", "jpeg">>
PNG  == <<"image", "/", "png">>
TIFF == <<"image", "/", "tiff">>
GIF  == <<"image", "/", "gif">>
BMP  == <<"image", "/", "bmp">>
WEBP == <<"image", "/", "webp">>
PDF  == <<"application", "/", "pdf">>

\* The keys of qq.Identify.prototype.PREVIEWABLE_MIME_TYPES
PREVIEWABLE_MIME_TYPES == {JPEG, GIF, PNG, BMP, TIFF}

\* The 0-based place of the first occurrence of x in s at or after place i
RECURSIVE IndexFrom(_, _, _)
IndexFrom(s, x, i) ==
    IF i >= Len(s) THEN -1
    ELSE IF s[i + 1] = x THEN i
    ELSE IndexFrom(s, x, i + 1)

\* s.indexOf(lexeme): the 0-based place of the first occurrence, -1 if there is none
IndexOf(s, x) == IndexFrom(s, x, 0)

\* The 0-based place of the last occurrence of x in s at or before place i
RECURSIVE IndexBackFrom(_, _, _)
IndexBackFrom(s, x, i) ==
    IF i < 0 THEN -1
    ELSE IF s[i + 1] = x THEN i
    ELSE IndexBackFrom(s, x, i - 1)

\* s.lastIndexOf(lexeme)
LastIndexOf(s, x) == IndexBackFrom(s, x, Len(s) - 1)

\* s.split(d): the pieces of s between the occurrences of d, all of them
RECURSIVE Split(_, _)
Split(s, d) ==
    LET i == IndexOf(s, d)
    IN  IF i < 0 THEN <<s>>
        ELSE <<SubSeq(s, 1, i)>> \o Split(SubSeq(s, i + 2, Len(s)), d)

\* a[i] of a JavaScript array (0-based): undefined past its end
At(a, i) == IF i + 1 \in 1..Len(a) THEN a[i + 1] ELSE Undefined

----------------------------------------------------------------------------
\* Type negotiation: _determineOutputType (scaler.js 81-112)

\* A negotiator that forgets the TIFF capability check of line 105
determineOutputType_NoTiffCheck(dspec) ==
    LET requestedType == dspec.requestedType
        defaultType   == dspec.defaultType
        referenceType == dspec.refType
    IN  IF ~Truthy(defaultType) /\ ~Truthy(requestedType)
        THEN IF referenceType # JPEG THEN PNG ELSE referenceType
        ELSE IF ~Truthy(requestedType)
        THEN defaultType
        ELSE IF requestedType \in PREVIEWABLE_MIME_TYPES
        THEN requestedType
        ELSE defaultType

\* A negotiator that hands back a requested type it does not recognise instead of
\* the default of line 111
determineOutputType_KeepUnrecognised(dspec) ==
    LET requestedType == dspec.requestedType
        defaultType   == dspec.defaultType
        referenceType == dspec.refType
    IN  IF ~Truthy(defaultType) /\ ~Truthy(requestedType)
        THEN IF referenceType # JPEG THEN PNG ELSE referenceType
        ELSE IF ~Truthy(requestedType)
        THEN defaultType
        ELSE IF requestedType \in PREVIEWABLE_MIME_TYPES
        THEN IF requestedType = TIFF
             THEN IF supportedFeatures.tiffPreviews THEN requestedType ELSE defaultType
             ELSE requestedType
        ELSE requestedType

_determineOutputType(dspec) ==
    LET requestedType == dspec.requestedType
        defaultType   == dspec.defaultType
        referenceType == dspec.refType
    IN  IF ~Truthy(defaultType) /\ ~Truthy(requestedType)
        THEN IF referenceType # JPEG THEN PNG ELSE referenceType
        ELSE IF ~Truthy(requestedType)
        THEN defaultType
        ELSE IF requestedType \in PREVIEWABLE_MIME_TYPES
        THEN IF requestedType = TIFF
             THEN IF supportedFeatures.tiffPreviews THEN requestedType ELSE defaultType
             ELSE requestedType
        ELSE defaultType

----------------------------------------------------------------------------
\* Name derivation: _getName (scaler.js 115-139)

\* qq.getExtension(filename): the text after the last ".", undefined without one
getExtension(filename) ==
    LET extIdx == LastIndexOf(filename, ".") + 1
    IN  IF extIdx > 0 THEN SubSeq(filename, extIdx + 1, Len(filename)) ELSE Undefined

\* A name deriver without the "image/png" of line 120: an absent type stays absent
getName_NoPngDefault(originalName, scaledVersionProperties) ==
    LET startOfExt    == LastIndexOf(originalName, ".")
        nameAppendage == <<" (">> \o scaledVersionProperties.name \o <<")">>
        versionType   == scaledVersionProperties.type
        referenceType == scaledVersionProperties.refType
        scaledExt     == IF referenceType # versionType
                         THEN At(Split(versionType, "/"), 1)
                         ELSE getExtension(originalName)
    IN  IF startOfExt >= 0
        THEN SubSeq(originalName, 1, startOfExt) \o nameAppendage \o <<".">> \o scaledExt
        ELSE originalName \o nameAppendage

_getName(originalName, scaledVersionProperties) ==
    LET startOfExt    == LastIndexOf(originalName, ".")
        nameAppendage == <<" (">> \o scaledVersionProperties.name \o <<")">>
        versionType   == IF Truthy(scaledVersionProperties.type)
                         THEN scaledVersionProperties.type ELSE PNG
        referenceType == scaledVersionProperties.refType
        scaledExt     == IF referenceType # versionType
                         THEN At(Split(versionType, "/"), 1)
                         ELSE getExtension(originalName)
    IN  IF startOfExt >= 0
        THEN SubSeq(originalName, 1, startOfExt) \o nameAppendage \o <<".">> \o scaledExt
        ELSE originalName \o nameAppendage

----------------------------------------------------------------------------
\* Size ordering: _getSortedSizes (scaler.js 142-156)

\* A comparator with the two results exchanged: largest first
compare_Descending(a, b) ==
    IF a.maxSize > b.maxSize THEN -1
    ELSE IF a.maxSize < b.maxSize THEN 1
    ELSE 0

\* The comparator handed to Array.prototype.sort
compare(a, b) ==
    IF a.maxSize > b.maxSize THEN 1
    ELSE IF a.maxSize < b.maxSize THEN -1
    ELSE 0

Arrangements(a) ==
    { [i \in 1..Len(a) |-> a[f[i]]] :
        f \in { g \in [1..Len(a) -> 1..Len(a)] :
                  \A i, j \in 1..Len(a) : i # j => g[i] # g[j] } }

\* Array.prototype.sort(compare): the arrangements of the array that compare orders.
\* Which of them the engine yields when elements compare equal is
\* implementation-defined.
ArraySort(a) ==
    { p \in Arrangements(a) : \A i, j \in 1..Len(p) : i < j => compare(p[i], p[j]) <= 0 }

\* qq.extend(first, second) on arrays: the elements of second are written over
\* those of first at the same places, and first is returned
extend(first, second) ==
    [i \in 1..(IF Len(first) > Len(second) THEN Len(first) ELSE Len(second)) |->
        IF i <= Len(second) THEN second[i] ELSE first[i]]

\* The arrays _getSortedSizes may return: it sorts a copy (qq.extend([], sizes))
_getSortedSizes(sizesArg) == ArraySort(extend(<<>>, sizesArg))

\* A sort of the array passed in, without the copy of line 145: the caller's array
\* is left in the order of the result
sizesArgAfterSort_InPlace(sizesArg, sorted) == sorted

\* The caller's array once _getSortedSizes has returned `sorted`: the parameter was
\* rebound to a copy (line 145) before the sort, so the array passed in is untouched
sizesArgAfterSort(sizesArg, sorted) == sizesArg

----------------------------------------------------------------------------
\* The binary codec: _dataUriToBlob and _createBlob (scaler.js 228-272)

Thrown == [threw |-> TRUE]
Returned(v) == [threw |-> FALSE, value |-> v]

\* The base64 alphabet, in the order of its 6-bit values
B64 ==
    <<"A", "B", "C", "D", "E", "F", "G", "H", "I", "J", "K", "L", "M",
      "N", "O", "P", "Q", "R", "S", "T", "U", "V", "W", "X", "Y", "Z",
      "a", "b", "c", "d", "e", "f", "g", "h", "i", "j", "k", "l", "m",
      "n", "o", "p", "q", "r", "s", "t", "u", "v", "w", "x", "y", "z",
      "0", "1", "2", "3", "4", "5", "6", "7", "8", "9", "+", "/">>

\* The 6-bit value of each character of the alphabet
B64Value == [c \in {B64[i] : i \in 1..64} |-> IndexOf(B64, c)]

RECURSIVE DecodeSextets(_)
DecodeSextets(s) ==
    IF Len(s) >= 4
    THEN LET n == B64Value[s[1]] * 262144 + B64Value[s[2]] * 4096
                  + B64Value[s[3]] * 64 + B64Value[s[4]]
         IN  <<n \div 65536, (n \div 256) % 256, n % 256>>
             \o DecodeSextets(SubSeq(s, 5, Len(s)))
    ELSE IF Len(s) = 3
    THEN LET n == (B64Value[s[1]] * 4096 + B64Value[s[2]] * 64
                   + B64Value[s[3]]) \div 4
         IN  <<n \div 256, n % 256>>
    ELSE IF Len(s) = 2
    THEN <<(B64Value[s[1]] * 64 + B64Value[s[2]]) \div 16>>
    ELSE <<>>

\* window.atob: the char codes of the decoded binary string; it throws on a text
\* that is no base64 (a foreign character, a length of 4n+1 once padding is off)
atob(s) ==
    LET n == Len(s)
        unpadded ==
            IF n > 0 /\ n % 4 = 0 /\ s[n] = "="
            THEN IF s[n - 1] = "=" THEN SubSeq(s, 1, n - 2) ELSE SubSeq(s, 1, n - 1)
            ELSE s
    IN  IF Undefined = s
           \/ Len(unpadded) % 4 = 1
           \/ \E i \in 1..Len(unpadded) : unpadded[i] \notin DOMAIN B64Value
        THEN Thrown
        ELSE Returned(DecodeSextets(unpadded))

HexDigits ==
    <<"0", "1", "2", "3", "4", "5", "6", "7", "8", "9", "A", "B", "C", "D", "E", "F">>

\* The char codes of the characters the model's percent-encoded texts are made of
CharCodes ==
    [c \in {"A", "B", ",", "%", " ", "2", "C", "4", "1", "0"} |->
        CASE c = "A" -> 65 [] c = "B" -> 66 [] c = "," -> 44 [] c = "%" -> 37
          [] c = " " -> 32 [] c = "2" -> 50 [] c = "C" -> 67 [] c = "4" -> 52
          [] c = "1" -> 49 [] c = "0" -> 48]

\* decodeURI leaves the escapes of these characters as they are: ; / ? : @ & = + $ , #
ReservedCodes == {59, 47, 63, 58, 64, 38, 61, 43, 36, 44, 35}

\* decodeURI: the char codes of the decoded text; it throws (URIError) on a "%" that
\* two hex digits do not follow and on an escape of a byte that is no ASCII character
\* outside a UTF-8 sequence
RECURSIVE decodeURI(_)
decodeURI(s) ==
    IF Undefined = s THEN Returned(<<117, 110, 100, 101, 102, 105, 110, 101, 100>>)
    ELSE IF s = <<>> THEN Returned(<<>>)
    ELSE IF s[1] # "%"
    THEN LET rest == decodeURI(Tail(s))
         IN  IF rest.threw THEN Thrown ELSE Returned(<<CharCodes[s[1]]>> \o rest.value)
    ELSE IF Len(s) < 3 \/ IndexOf(HexDigits, s[2]) < 0 \/ IndexOf(HexDigits, s[3]) < 0
    THEN Thrown
    ELSE LET code == IndexOf(HexDigits, s[2]) * 16 + IndexOf(HexDigits, s[3])
             rest == decodeURI(SubSeq(s, 4, Len(s)))
         IN  IF code >= 128 \/ rest.threw THEN Thrown
             ELSE IF code \in ReservedCodes
             THEN Returned(<<37, CharCodes[s[2]], CharCodes[s[3]]>> \o rest.value)
             ELSE Returned(<<code>> \o rest.value)

\* _createBlob(data, mime): a Blob of these bytes and this type
_createBlob(data, mime) == [bytes |-> data, type |-> mime]

\* _dataUriToBlob(dataUri): the Blob, or the exception of atob, decodeURI or of a
\* split piece that is undefined
_dataUriToBlob(dataUri) ==
    LET pieces     == Split(dataUri, ",")
        byteString == IF IndexOf(At(pieces, 0), "base64") >= 0
                      THEN atob(At(pieces, 1))
                      ELSE decodeURI(At(pieces, 1))
        afterColon == At(Split(At(pieces, 0), ":"), 1)
    IN  IF byteString.threw \/ afterColon = Undefined
        THEN Thrown
        ELSE LET mimeString == At(Split(afterColon, ";"), 0)
                 intArray   == [i \in 1..Len(byteString.value) |-> byteString.value[i] % 256]
             IN  Returned(_createBlob(intArray, mimeString))

\* window.btoa over bytes: the base64 text of a byte sequence
RECURSIVE EncodeBytes(_)
EncodeBytes(b) ==
    IF Len(b) >= 3
    THEN LET n == b[1] * 65536 + b[2] * 256 + b[3]
         IN  <<B64[(n \div 262144) + 1], B64[((n \div 4096) % 64) + 1],
               B64[((n \div 64) % 64) + 1], B64[(n % 64) + 1]>>
             \o EncodeBytes(SubSeq(b, 4, Len(b)))
    ELSE IF Len(b) = 2
    THEN LET n == (b[1] * 256 + b[2]) * 4
         IN  <<B64[(n \div 4096) + 1], B64[((n \div 64) % 64) + 1], B64[(n % 64) + 1], "=">>
    ELSE IF Len(b) = 1
    THEN <<B64[((b[1] * 16) \div 64) + 1], B64[((b[1] * 16) % 64) + 1], "=", "=">>
    ELSE <<>>

----------------------------------------------------------------------------
\* The collaborators of the scaler

\* qq.Promise: success and failure record the arguments and set the state each time
\* they are called; the object itself does not refuse a second signal
NewPromise == [state |-> "pending", successArgs |-> <<>>, failureArgs |-> <<>>,
               successes |-> 0, failures |-> 0]

Promise_success(p, v) ==
    [p EXCEPT !.state = "resolved", !.successArgs = <<v>>, !.successes = @ + 1]

Promise_failure(p, v) ==
    [p EXCEPT !.state = "rejected", !.failureArgs = <<v>>, !.failures = @ + 1]

\* qq.getUniqueId(): the identifier handed out after n others
getUniqueId(n) == n + 1

\* new qq.Identify(blob, log).isPreviewableSync(): whether the blob renders natively
isPreviewableSync(blob) == blob.previewable

\* qq.BlobProxy(referenceBlob, onCreate): create() calls onCreate(referenceBlob)
BlobProxy(referenceBlob, onCreate) == [referenceBlob |-> referenceBlob, onCreate |-> onCreate]

IsBlobProxy(b) == "onCreate" \in DOMAIN b

DataUriHeader(type) == <<"data", ":">> \o type \o <<";", "base64", ",">>

\* canvas.toDataURL(type, quality): the canvas as a base64 Data-URI, a PNG when the
\* type is none the canvas encodes
toDataURL(type) ==
    IF type = JPEG THEN DataUriHeader(JPEG) \o <<"/", "9", "g", "A">>
    ELSE DataUriHeader(PNG) \o <<"i", "V", "B", "O">>

\* FileReader.readAsDataURL(blob): reader.result once the read has succeeded
readAsDataURL(blob) == DataUriHeader(blob.type) \o EncodeBytes(blob.bytes)

\* ExifRestorer.restore(original, scaled): the scaled JPEG with the original's EXIF
\* segment put in front of its image data; or a failure: an exception, or a text
\* that is no Data-URI (the merged base64 without its header)
ExifRestorer_restore(originalImageDataUri, scaledImageDataUri) ==
    { Thrown,
      Returned(DataUriHeader(JPEG) \o <<"/", "+", "E", "B">>
               \o At(Split(scaledImageDataUri, ","), 1)),
      Returned(<<"/", "+", "E", "B">> \o At(Split(scaledImageDataUri, ","), 1)) }

----------------------------------------------------------------------------
\* The inputs the model draws from

SizeSpecs ==
    { [maxSize |-> 100, name |-> <<"small">>, type |-> Undefined],
      [maxSize |-> 400, name |-> <<"large">>, type |-> JPEG] }

\* A size spec that ties with another on maxSize and differs from it
TiedSizeSpecs == { [maxSize |-> 100, name |-> <<"thumb">>, type |-> TIFF] }

\* The options records whose sizes are drawn from these size specs
SpecsOver(sizeSpecs) ==
    [sendOriginal : BOOLEAN,
     defaultType  : {Undefined, PNG},
     failureText  : {<<"Failed to scale">>},
     includeExif  : BOOLEAN,
     sizes        : UNION { [1..n -> sizeSpecs] : n \in 0..MaxSizes }]

Specs == SpecsOver(SizeSpecs)

JpegBlob == [type |-> JPEG, bytes |-> <<255, 216, 255>>, previewable |-> TRUE]
PngBlob  == [type |-> PNG, bytes |-> <<137, 80, 78>>, previewable |-> TRUE]
PdfBlob  == [type |-> PDF, bytes |-> <<37, 80>>, previewable |-> FALSE]

\* The files a caller submits: identifier, name, and a Blob or a {blob: ...} wrapper
References ==
    { [uuid |-> 101, name |-> <<"photo", ".", "jpg">>, data |-> JpegBlob],
      [uuid |-> 102, name |-> <<"pic", ".", "png">>, data |-> [blob |-> PngBlob]],
      [uuid |-> 103, name |-> <<"notes">>, data |-> PdfBlob] }

----------------------------------------------------------------------------
\* Construction: qq.Scaler(spec, log) (scaler.js 11-26)

\* The state a construction leaves, for the options and platforms drawn from
Constructed(specs, features) ==
    /\ options \in specs
    /\ supportedFeatures \in features
    /\ \E sizes \in _getSortedSizes(options.sizes) :
          /\ spec = [options EXCEPT !.sizes = sizesArgAfterSort(options.sizes, sizes)]
          /\ scaler = [includeReference  |-> spec.sendOriginal,
                       defaultType       |-> spec.defaultType,
                       failedToScaleText |-> spec.failureText,
                       includeExif       |-> spec.includeExif,
                       sizes             |-> sizes,
                       enabled           |-> supportedFeatures.imagePreviews /\ Len(sizes) > 0]
    /\ uniqueIds = 0
    /\ returned = <<>>
    /\ invocations = <<>>
    /\ promises = <<>>
    /\ probe = [op |-> "none"]

\* The scaler whose producers are run: the reference is sent along, so that the lists
\* hold a record that is no producer; what sendOriginal and the platform change is
\* the list getFileRecords returns, which InitOrchestrator draws in full
Init ==
    Constructed({s \in Specs : s.sendOriginal},
                [imagePreviews : {TRUE}, tiffPreviews : {FALSE}])

----------------------------------------------------------------------------
\* _generateScaledImage: what one call sets up (scaler.js 158-175, 201)

\* One promise made by the first call and handed to every later call, instead of a
\* new one per call
newScalingEffort_Shared == IF promises = <<>> THEN Len(promises) + 1 ELSE 1

\* scalingEffort = new qq.Promise() (line 169): the place of the new object
newScalingEffort == Len(promises) + 1

\* A call that takes the EXIF path on the includeExif option alone, without the two
\* type tests of line 168
generateScaledImage_FlagOnly(gspec, sourceFile) ==
    [spec               |-> gspec,
     sourceFile         |-> sourceFile,
     includeExif        |-> gspec.includeExif,
     scalingEffort      |-> newScalingEffort,
     step               |-> "Rendering",
     generate           |-> "pending",
     rendered           |-> Undefined,
     scaledImageDataUri |-> Undefined,
     reader             |-> "none",
     restore            |-> "none",
     blobs              |-> 0]

\* The variables of one call of _generateScaledImage(spec, sourceFile) as it returns:
\* generate has been called and has not yet signalled (lines 161-175, 201)
_generateScaledImage(gspec, sourceFile) ==
    [spec               |-> gspec,
     sourceFile         |-> sourceFile,
     includeExif        |-> gspec.includeExif /\ sourceFile.type = JPEG /\ gspec.type = JPEG,
     scalingEffort      |-> newScalingEffort,
     step               |-> "Rendering",
     generate           |-> "pending",
     rendered           |-> Undefined,
     scaledImageDataUri |-> Undefined,
     reader             |-> "none",
     restore            |-> "none",
     blobs              |-> 0]

----------------------------------------------------------------------------
\* getFileRecords (scaler.js 28-74)

\* An identifier taken once per call instead of once per record
recordUuid_OncePerCall(idx) == getUniqueId(uniqueIds)

\* The identifier of the idx-th scaled record of a call: qq.getUniqueId() (line 45)
recordUuid(idx) == getUniqueId(uniqueIds + idx - 1)

\* The record pushed for one size (lines 38-62)
scaledRecord(idx, sizeRecord, originalFileName, originalBlob) ==
    LET outputType == _determineOutputType([defaultType   |-> scaler.defaultType,
                                            requestedType |-> sizeRecord.type,
                                            refType       |-> originalBlob.type])
    IN  [uuid |-> recordUuid(idx),
         name |-> _getName(originalFileName, [name    |-> sizeRecord.name,
                                              type    |-> outputType,
                                              refType |-> originalBlob.type]),
         blob |-> BlobProxy(originalBlob,
                            [maxSize     |-> sizeRecord.maxSize,
                             type        |-> outputType,
                             failedText  |-> scaler.failedToScaleText,
                             includeExif |-> scaler.includeExif])]

\* Scaled records made without asking whether the reference can be rendered
scaledRecords_Unchecked(originalFileName, originalBlob) ==
    [idx \in 1..Len(scaler.sizes) |->
        scaledRecord(idx, scaler.sizes[idx], originalFileName, originalBlob)]

\* Scaled records made only by a scaler whose enabled flag is set
scaledRecords_IfEnabled(originalFileName, originalBlob) ==
    IF scaler.enabled /\ isPreviewableSync(originalBlob)
    THEN [idx \in 1..Len(scaler.sizes) |->
            scaledRecord(idx, scaler.sizes[idx], originalFileName, originalBlob)]
    ELSE <<>>

\* The records of the scaled versions, smallest first (lines 35-64)
scaledRecords(originalFileName, originalBlob) ==
    IF isPreviewableSync(originalBlob)
    THEN [idx \in 1..Len(scaler.sizes) |->
            scaledRecord(idx, scaler.sizes[idx], originalFileName, originalBlob)]
    ELSE <<>>

\* The record of the original file, if requested (lines 67-71)
referenceRecords(originalFileUuid, originalFileName, originalBlob) ==
    IF scaler.includeReference
    THEN <<[uuid |-> originalFileUuid, name |-> originalFileName, blob |-> originalBlob]>>
    ELSE <<>>

\* The list getFileRecords returns
getFileRecords(originalFileUuid, originalFileName, originalBlobOrBlobData) ==
    LET originalBlob == IF "blob" \in DOMAIN originalBlobOrBlobData
                        THEN originalBlobOrBlobData.blob
                        ELSE originalBlobOrBlobData
    IN  scaledRecords(originalFileName, originalBlob)
        \o referenceRecords(originalFileUuid, originalFileName, originalBlob)

ScaledOf(records) == SelectSeq(records, LAMBDA r : IsBlobProxy(r.blob))

\* A getFileRecords that calls _generateScaledImage for its first scaled record
\* instead of binding it
GetFileRecords_Eager(originalFileUuid, originalFileName, originalBlobOrBlobData) ==
    /\ Len(returned) + Len(invocations) < MaxCalls
    /\ LET records == getFileRecords(originalFileUuid, originalFileName,
                                     originalBlobOrBlobData)
           originalBlob == IF "blob" \in DOMAIN originalBlobOrBlobData
                           THEN originalBlobOrBlobData.blob
                           ELSE originalBlobOrBlobData
           eager == IF records # <<>> /\ IsBlobProxy(records[1].blob)
                    THEN <<_generateScaledImage(records[1].blob.onCreate, originalBlob)
                             @@ [producer |-> records[1].uuid]>>
                    ELSE <<>>
       IN  /\ returned' = Append(returned, [originalFileUuid |-> originalFileUuid,
                                            originalFileName |-> originalFileName,
                                            originalBlob     |-> originalBlob,
                                            records          |-> records])
           /\ uniqueIds' = uniqueIds + Len(ScaledOf(records))
           /\ invocations' = invocations \o eager
           /\ promises' = promises \o [k \in 1..Len(eager) |-> NewPromise]
    /\ UNCHANGED <<options, spec, supportedFeatures, scaler, probe>>

GetFileRecords(originalFileUuid, originalFileName, originalBlobOrBlobData) ==
    /\ Len(returned) + Len(invocations) < MaxCalls
    /\ LET records == getFileRecords(originalFileUuid, originalFileName,
                                     originalBlobOrBlobData)
           originalBlob == IF "blob" \in DOMAIN originalBlobOrBlobData
                           THEN originalBlobOrBlobData.blob
                           ELSE originalBlobOrBlobData
       IN  /\ returned' = Append(returned, [originalFileUuid |-> originalFileUuid,
                                            originalFileName |-> originalFileName,
                                            originalBlob     |-> originalBlob,
                                            records          |-> records])
           /\ uniqueIds' = uniqueIds + Len(ScaledOf(records))
    /\ UNCHANGED <<options, spec, supportedFeatures, scaler, invocations, promises, probe>>

----------------------------------------------------------------------------
\* The producers: _generateScaledImage and _insertExifHeader (scaler.js 158-225)

\* A producer that remembers its first call: asked again, it starts nothing and
\* hands back the result of that call
InvokeProducer_Memoized(c, k) ==
    /\ Len(returned) + Len(invocations) < MaxCalls
    /\ IsBlobProxy(returned[c].records[k].blob)
    /\ LET proxy   == returned[c].records[k].blob
           call    == _generateScaledImage(proxy.onCreate, proxy.referenceBlob)
           earlier == {e \in 1..Len(invocations) :
                          invocations[e].producer = returned[c].records[k].uuid}
       IN  IF earlier = {}
           THEN /\ invocations' = Append(invocations,
                                         call @@ [producer |-> returned[c].records[k].uuid])
                /\ promises' = Append(promises, NewPromise)
           ELSE /\ invocations' = Append(invocations,
                                         invocations[CHOOSE e \in earlier : TRUE])
                /\ promises' = promises
    /\ UNCHANGED <<options, spec, supportedFeatures, scaler, uniqueIds, returned, probe>>

\* The caller asks the BlobProxy of record k of list c for its blob: create() calls
\* the bound _generateScaledImage with the reference blob
InvokeProducer(c, k) ==
    /\ Len(returned) + Len(invocations) < MaxCalls
    /\ IsBlobProxy(returned[c].records[k].blob)
    /\ LET proxy == returned[c].records[k].blob
           call  == _generateScaledImage(proxy.onCreate, proxy.referenceBlob)
       IN  /\ invocations' = Append(invocations, call @@ [producer |-> returned[c].records[k].uuid])
           /\ promises' = IF call.scalingEffort > Len(promises)
                          THEN Append(promises, NewPromise)
                          ELSE promises
    /\ UNCHANGED <<options, spec, supportedFeatures, scaler, uniqueIds, returned, probe>>

\* A signalSuccess that signals the Data-URI itself and never calls the codec
signalSuccess_Unencoded(i, v, dataUri) ==
    /\ invocations' = [invocations EXCEPT ![i] = [v EXCEPT !.step = "Resolved"]]
    /\ promises' = [promises EXCEPT ![v.scalingEffort] = Promise_success(@, dataUri)]

\* signalSuccess (lines 177-181): the Data-URI is encoded and the blob signalled; an
\* exception of _dataUriToBlob leaves the callback before scalingEffort.success.
\* The invocation and the promises as signalSuccess leaves them:
signalSuccess(i, v, dataUri) ==
    LET blob == _dataUriToBlob(dataUri)
    IN  /\ invocations' = [invocations EXCEPT ![i] =
               [v EXCEPT !.step = IF blob.threw THEN "Aborted" ELSE "Resolved",
                         !.blobs = @ + 1]]
        /\ promises' = IF blob.threw THEN promises
                       ELSE [promises EXCEPT ![v.scalingEffort] =
                                                 Promise_success(@, blob.value)]

\* The success callback without the else of line 193: signalSuccess runs at once on
\* the EXIF path too, and again when the read settles
generateSuccess_NoElse(i) ==
    LET v == invocations[i]
        scaledImageDataUri == toDataURL(v.spec.type)
    IN  /\ v.generate = "pending"
        /\ signalSuccess(i, [v EXCEPT !.generate = "success",
                                      !.rendered = scaledImageDataUri,
                                      !.scaledImageDataUri = scaledImageDataUri,
                                      !.reader = IF v.includeExif THEN "reading" ELSE @],
                         scaledImageDataUri)
        /\ UNCHANGED <<options, spec, supportedFeatures, scaler, uniqueIds, returned, probe>>

\* The success callback of imageGenerator.generate (lines 176-195)
generateSuccess(i) ==
    LET v == invocations[i]
        scaledImageDataUri == toDataURL(v.spec.type)
    IN  /\ v.generate = "pending"
        /\ IF v.includeExif
           THEN /\ invocations' = [invocations EXCEPT ![i] =
                       [v EXCEPT !.generate = "success", !.step = "ExifMerging",
                                 !.rendered = scaledImageDataUri,
                                 !.scaledImageDataUri = scaledImageDataUri,
                                 !.reader = "reading"]]
                /\ promises' = promises
           ELSE signalSuccess(i, [v EXCEPT !.generate = "success",
                                           !.rendered = scaledImageDataUri,
                                           !.scaledImageDataUri = scaledImageDataUri],
                              scaledImageDataUri)
        /\ UNCHANGED <<options, spec, supportedFeatures, scaler, uniqueIds, returned, probe>>

\* A failure callback that rejects with the text it logs instead of failedText
generateFailure_LogText(i) ==
    LET v == invocations[i]
    IN  /\ v.generate = "pending"
        /\ invocations' = [invocations EXCEPT ![i] =
               [v EXCEPT !.generate = "failure", !.step = "Rejected"]]
        /\ promises' = [promises EXCEPT ![v.scalingEffort] =
                           Promise_failure(@, <<"Failed attempt to generate scaled version">>)]
        /\ UNCHANGED <<options, spec, supportedFeatures, scaler, uniqueIds, returned, probe>>

\* The failure callback of imageGenerator.generate (lines 196-199)
generateFailure(i) ==
    LET v == invocations[i]
    IN  /\ v.generate = "pending"
        /\ invocations' = [invocations EXCEPT ![i] =
               [v EXCEPT !.generate = "failure", !.step = "Rejected"]]
        /\ promises' = [promises EXCEPT ![v.scalingEffort] =
                           Promise_failure(@, v.spec.failedText)]
        /\ UNCHANGED <<options, spec, supportedFeatures, scaler, uniqueIds, returned, probe>>

\* A continuation that forgets the assignment of line 185: the transplant's result
\* is dropped and the rendered Data-URI encoded
readerOnload_KeepRendered(i) ==
    LET v == invocations[i]
    IN  /\ v.reader = "reading"
        /\ \E r \in ExifRestorer_restore(readAsDataURL(v.sourceFile), v.scaledImageDataUri) :
              IF r.threw
              THEN /\ invocations' = [invocations EXCEPT ![i] =
                          [v EXCEPT !.reader = "load", !.restore = "threw",
                                    !.step = "Aborted"]]
                   /\ promises' = promises
              ELSE signalSuccess(i, [v EXCEPT !.reader = "load", !.restore = "returned"],
                                 v.scaledImageDataUri)
        /\ UNCHANGED <<options, spec, supportedFeatures, scaler, uniqueIds, returned, probe>>

\* reader.onload (lines 212-215): the transplant runs inside the handler; when it
\* returns, insertionEffort.success runs the continuation of lines 184-187 at once,
\* and when it throws, the exception leaves the handler and nothing is signalled
readerOnload(i) ==
    LET v == invocations[i]
    IN  /\ v.reader = "reading"
        /\ \E r \in ExifRestorer_restore(readAsDataURL(v.sourceFile), v.scaledImageDataUri) :
              IF r.threw
              THEN /\ invocations' = [invocations EXCEPT ![i] =
                          [v EXCEPT !.reader = "load", !.restore = "threw",
                                    !.step = "Aborted"]]
                   /\ promises' = promises
              ELSE signalSuccess(i, [v EXCEPT !.reader = "load", !.restore = "returned",
                                              !.scaledImageDataUri = r.value],
                                 r.value)
        /\ UNCHANGED <<options, spec, supportedFeatures, scaler, uniqueIds, returned, probe>>

\* A failed read that fails the variant: the continuation of lines 188-191 calling
\* scalingEffort.failure instead of signalSuccess
readerOnerror_Rejects(i) ==
    LET v == invocations[i]
    IN  /\ v.reader = "reading"
        /\ invocations' = [invocations EXCEPT ![i] =
               [v EXCEPT !.reader = "error", !.step = "Rejected"]]
        /\ promises' = [promises EXCEPT ![v.scalingEffort] =
                           Promise_failure(@, v.spec.failedText)]
        /\ UNCHANGED <<options, spec, supportedFeatures, scaler, uniqueIds, returned, probe>>

\* reader.onerror (lines 217-220): insertionEffort.failure runs the continuation of
\* lines 188-191, which signals the rendered Data-URI
readerOnerror(i) ==
    LET v == invocations[i]
    IN  /\ v.reader = "reading"
        /\ signalSuccess(i, [v EXCEPT !.reader = "error"], v.scaledImageDataUri)
        /\ UNCHANGED <<options, spec, supportedFeatures, scaler, uniqueIds, returned, probe>>

----------------------------------------------------------------------------
\* The specification of the scaler

Next ==
    \/ \E ref \in References : GetFileRecords(ref.uuid, ref.name, ref.data)
    \/ \E c \in 1..Len(returned) : \E k \in 1..Len(returned[c].records) : InvokeProducer(c, k)
    \/ \E i \in 1..Len(invocations) : generateSuccess(i)
    \/ \E i \in 1..Len(invocations) : generateFailure(i)
    \/ \E i \in 1..Len(invocations) : readerOnload(i)
    \/ \E i \in 1..Len(invocations) : readerOnerror(i)

Spec == Init /\ [][Next]_vars

\* The types the negotiator is tried on: absent, empty, previewable or not
TypeInputs == {Undefined, <<>>, JPEG, PNG, TIFF, GIF, WEBP}

\* A call of _determineOutputType on its own
DetermineOutputType(defaultType, requestedType, refType) ==
    /\ probe' = [op     |-> "_determineOutputType",
                 args   |-> [defaultType   |-> defaultType,
                             requestedType |-> requestedType,
                             refType       |-> refType],
                 result |-> _determineOutputType([defaultType   |-> defaultType,
                                                  requestedType |-> requestedType,
                                                  refType       |-> refType])]
    /\ UNCHANGED <<options, spec, supportedFeatures, scaler, uniqueIds, returned, invocations, promises>>

InitNegotiator ==
    Constructed({s \in Specs : s.sizes = <<>> /\ ~s.sendOriginal /\ ~s.includeExif},
                [imagePreviews : {TRUE}, tiffPreviews : BOOLEAN])

NextNegotiator ==
    \E defaultType \in TypeInputs, requestedType \in TypeInputs, refType \in TypeInputs \ {<<>>} :
        DetermineOutputType(defaultType, requestedType, refType)

SpecNegotiator == InitNegotiator /\ [][NextNegotiator]_vars

\* The names and labels the name deriver is tried on: one extension, none, two,
\* and a name that starts with its only "."
OriginalNames ==
    { <<"photo", ".", "jpg">>, <<"notes">>, <<"archive", ".", "tar", ".", "gz">>,
      <<".", "hidden">> }

Labels == { <<"small">>, <<"large">> }

\* A call of _getName on its own
GetName(originalName, label, type, refType) ==
    /\ probe' = [op     |-> "_getName",
                 args   |-> [originalName |-> originalName, name |-> label,
                             type |-> type, refType |-> refType],
                 result |-> _getName(originalName, [name    |-> label,
                                                    type    |-> type,
                                                    refType |-> refType])]
    /\ UNCHANGED <<options, spec, supportedFeatures, scaler, uniqueIds, returned, invocations, promises>>

NextNamer ==
    \E originalName \in OriginalNames, label \in Labels,
       type \in TypeInputs, refType \in TypeInputs :
        GetName(originalName, label, type, refType)

SpecNamer == InitNegotiator /\ [][NextNamer]_vars

\* The Data-URIs the codec is tried on: a header, a comma and a payload, with and
\* without the base64 token, the payload with and without commas of its own; and
\* two texts with no comma at all
DataUriHeaders ==
    { <<"data", ":">> \o PNG \o <<";", "base64">>,
      <<"data", ":">> \o JPEG \o <<";", "base64">>,
      <<"data", ":", "text", "/", "plain">>,
      <<"data", ":", "text", "/", "plain", ";", "charset", "=", "utf-8">> }

DataUriPayloads ==
    { <<>>, <<"A", "B">>, <<"A", ",", "B">>, <<"%", "4", "1">>, <<"%", "2", "C", "A">>,
      <<"A", "B", "C", "A">>, <<"A", "B", "C", "A", ",", "A", "B", "C", "A">>,
      <<"A", " ", ",", ",", "B">> }

DataUris ==
    { h \o <<",">> \o p : h \in DataUriHeaders, p \in DataUriPayloads }
    \cup { <<"data", ":", "text", "/", "plain">>, <<"A", "B">> }

\* A call of _dataUriToBlob on its own
DataUriToBlob(dataUri) ==
    /\ probe' = [op     |-> "_dataUriToBlob",
                 args   |-> [dataUri |-> dataUri],
                 result |-> _dataUriToBlob(dataUri)]
    /\ UNCHANGED <<options, spec, supportedFeatures, scaler, uniqueIds, returned, invocations, promises>>

NextCodec == \E dataUri \in DataUris : DataUriToBlob(dataUri)

SpecCodec == InitNegotiator /\ [][NextCodec]_vars

\* The scaler as getFileRecords alone exercises it, on every platform
InitOrchestrator ==
    Constructed(SpecsOver(SizeSpecs \cup TiedSizeSpecs),
                [imagePreviews : BOOLEAN, tiffPreviews : BOOLEAN])

NextOrchestrator == \E ref \in References : GetFileRecords(ref.uuid, ref.name, ref.data)

SpecOrchestrator == InitOrchestrator /\ [][NextOrchestrator]_vars

----------------------------------------------------------------------------
\* Properties of getFileRecords

MaxSizeOf(record) == record.blob.onCreate.maxSize

\* C1: in every list getFileRecords has returned the size-derived records stand in
\* non-decreasing maxSize order and before any other record, and when sendOriginal
\* is set the last element is the record of the reference (its uuid, name and blob).
C1_OrderedReferenceLast ==
    \A c \in 1..Len(returned) :
        LET call == returned[c]
            list == call.records
        IN  /\ \A i, j \in 1..Len(list) :
                  (i < j /\ IsBlobProxy(list[j].blob)) =>
                      /\ IsBlobProxy(list[i].blob)
                      /\ MaxSizeOf(list[i]) <= MaxSizeOf(list[j])
            /\ spec.sendOriginal =>
                  /\ Len(list) > 0
                  /\ list[Len(list)] = [uuid |-> call.originalFileUuid,
                                        name |-> call.originalFileName,
                                        blob |-> call.originalBlob]

\* A list of two sizes configured largest first, returned smallest first with the
\* reference behind them
C1_Witness ==
    /\ Len(spec.sizes) = 2
    /\ spec.sizes[1].maxSize > spec.sizes[2].maxSize
    /\ spec.sendOriginal
    /\ \E c \in 1..Len(returned) :
          /\ Len(returned[c].records) = 3
          /\ MaxSizeOf(returned[c].records[1]) < MaxSizeOf(returned[c].records[2])
          /\ ~IsBlobProxy(returned[c].records[3].blob)

\* How many elements of a sequence have this maxSize
CountOfSize(sizes, m) == Cardinality({i \in 1..Len(sizes) : sizes[i].maxSize = m})

\* C8: a call on a blob that is not previewable returns only the reference record
\* (sendOriginal) or nothing; a call on a previewable blob returns exactly one
\* size-derived record per configured size spec.
C8_PreviewableGate ==
    \A c \in 1..Len(returned) :
        LET call   == returned[c]
            scaled == ScaledOf(call.records)
        IN  IF isPreviewableSync(call.originalBlob)
            THEN /\ Len(scaled) = Len(spec.sizes)
                 /\ \A k \in 1..Len(spec.sizes) :
                       CountOfSize(spec.sizes, spec.sizes[k].maxSize)
                         = Cardinality({i \in 1..Len(scaled) :
                                           MaxSizeOf(scaled[i]) = spec.sizes[k].maxSize})
            ELSE call.records =
                    IF spec.sendOriginal
                    THEN <<[uuid |-> call.originalFileUuid,
                            name |-> call.originalFileName,
                            blob |-> call.originalBlob]>>
                    ELSE <<>>

\* A scaler with sizes configured, asked about a blob that cannot be rendered: the
\* reference alone comes back
C8_Witness ==
    /\ Len(spec.sizes) > 0
    /\ spec.sendOriginal
    /\ \E c \in 1..Len(returned) :
          /\ ~isPreviewableSync(returned[c].originalBlob)
          /\ Len(returned[c].records) = 1

\* The descriptors returned so far, each with its place
Descriptors == { <<c, k>> \in (1..Len(returned)) \X (1..(MaxSizes + 2)) :
                    k <= Len(returned[c].records) }

DescriptorAt(d) == returned[d[1]].records[d[2]]

\* C10 as stated: no two descriptors, of one list or of two, carry the same uuid.
C10_AllUuidsDistinct ==
    \A d, e \in Descriptors : d # e => DescriptorAt(d).uuid # DescriptorAt(e).uuid

\* C10, amended: no two size-derived descriptors, of one list or of two, carry the
\* same uuid; the descriptor of the reference carries the uuid the caller passed.
C10_ScaledUuidsDistinct ==
    /\ \A d, e \in Descriptors :
          (d # e /\ IsBlobProxy(DescriptorAt(d).blob) /\ IsBlobProxy(DescriptorAt(e).blob))
              => DescriptorAt(d).uuid # DescriptorAt(e).uuid
    /\ \A d \in Descriptors :
          ~IsBlobProxy(DescriptorAt(d).blob)
              => DescriptorAt(d).uuid = returned[d[1]].originalFileUuid

\* Two calls for the same reference, each returning two scaled descriptors and the
\* reference
C10_Witness ==
    /\ Len(returned) = 2
    /\ returned[1].originalFileUuid = returned[2].originalFileUuid
    /\ Len(returned[1].records) = 3
    /\ Len(returned[2].records) = 3
    /\ returned[1].records[3].uuid = returned[2].records[3].uuid

C20_DisabledScalesNothing ==
    /\ scaler.enabled <=> (supportedFeatures.imagePreviews /\ Len(spec.sizes) > 0)
    /\ ~scaler.enabled =>
          \A c \in 1..Len(returned) : ScaledOf(returned[c].records) = <<>>

\* C20, amended: enabled is set exactly when the platform has image previews and a
\* size is configured; getFileRecords does not consult it: with no size configured
\* it returns no size-derived record, and with sizes configured on a platform
\* without image previews it still returns one per size for a previewable blob.
C20_EnabledNotConsulted ==
    /\ scaler.enabled <=> (supportedFeatures.imagePreviews /\ Len(spec.sizes) > 0)
    /\ \A c \in 1..Len(returned) :
          /\ Len(spec.sizes) = 0 => ScaledOf(returned[c].records) = <<>>
          /\ (~scaler.enabled /\ isPreviewableSync(returned[c].originalBlob))
                => Len(ScaledOf(returned[c].records)) = Len(spec.sizes)

\* A platform without image previews, two sizes configured: the scaler is not
\* enabled and has returned two size-derived records
C20_Witness ==
    /\ ~supportedFeatures.imagePreviews
    /\ Len(spec.sizes) = 2
    /\ ~scaler.enabled
    /\ \E c \in 1..Len(returned) : Len(ScaledOf(returned[c].records)) = 2

----------------------------------------------------------------------------
\* Properties of the type negotiation

\* C7 as stated: without TIFF-preview support the negotiator never returns image/tiff.
C7_NeverTiffWithoutSupport ==
    (probe.op = "_determineOutputType" /\ ~supportedFeatures.tiffPreviews)
        => probe.result # TIFF

\* C7, amended: without TIFF-preview support the negotiator returns image/tiff only
\* when image/tiff is the defaultType, which it hands back unvalidated.
C7_TiffOnlyAsDefault ==
    (probe.op = "_determineOutputType" /\ ~supportedFeatures.tiffPreviews
       /\ probe.result = TIFF)
        => probe.args.defaultType = TIFF

\* image/tiff requested on a platform without TIFF previews: the default comes back
C7_Witness ==
    /\ probe.op = "_determineOutputType"
    /\ ~supportedFeatures.tiffPreviews
    /\ probe.args.requestedType = TIFF
    /\ probe.args.defaultType = PNG
    /\ probe.result = PNG

\* Whether a type argument is given: neither undefined nor the empty string
Given(type) == type # Undefined /\ Len(type) > 0

\* The four rules of the type negotiation as a table
RuleTable(defaultType, requestedType, referenceType, tiffPreviews) ==
    CASE ~Given(defaultType) /\ ~Given(requestedType) ->
             IF referenceType = JPEG THEN JPEG ELSE PNG
      [] Given(defaultType) /\ ~Given(requestedType) -> defaultType
      [] Given(requestedType) /\ requestedType \in PREVIEWABLE_MIME_TYPES \ {TIFF} ->
             requestedType
      [] Given(requestedType) /\ requestedType = TIFF ->
             IF tiffPreviews THEN TIFF ELSE defaultType
      [] Given(requestedType) /\ requestedType \notin PREVIEWABLE_MIME_TYPES ->
             defaultType

\* C12: for every defaultType, requestedType, referenceType and TIFF capability the
\* negotiator returns what the four-rule table gives.
C12_FollowsRuleTable ==
    probe.op = "_determineOutputType" =>
        probe.result = RuleTable(probe.args.defaultType, probe.args.requestedType,
                                 probe.args.refType, supportedFeatures.tiffPreviews)

\* A requested type the engine does not know and no default: nothing comes back
C12_Witness ==
    /\ probe.op = "_determineOutputType"
    /\ probe.args.requestedType = WEBP
    /\ probe.args.defaultType = Undefined
    /\ probe.args.refType = JPEG
    /\ probe.result = Undefined

----------------------------------------------------------------------------
\* Properties of the name derivation

\* The places (1-based) of the "." lexemes of a name
DotsOf(name) == {i \in 1..Len(name) : name[i] = "."}

\* The place of the last "." of a name that has one
LastDot(name) == CHOOSE i \in DotsOf(name) : \A j \in DotsOf(name) : j <= i

\* The subtype of a MIME type: the text after its "/"
SubtypeOf(type) ==
    IF \E i \in 1..Len(type) : type[i] = "/"
    THEN LET slash == CHOOSE i \in 1..Len(type) : type[i] = "/" /\ \A j \in 1..(i - 1) : type[j] # "/"
         IN  SubSeq(type, slash + 1, Len(type))
    ELSE Undefined

\* The name the formula of the name deriver gives, for the type that decides the
\* extension
NameByFormula(originalName, label, decidingType, refType) ==
    IF DotsOf(originalName) = {}
    THEN originalName \o <<" (">> \o label \o <<")">>
    ELSE LET dot  == LastDot(originalName)
             base == SubSeq(originalName, 1, dot - 1)
             ext  == IF decidingType = refType
                     THEN SubSeq(originalName, dot + 1, Len(originalName))
                     ELSE SubtypeOf(decidingType)
         IN  base \o <<" (">> \o label \o <<")">> \o <<".">> \o ext

\* C11 as stated: _getName follows the formula with the negotiated type itself
\* deciding the extension, so that equal negotiated and reference types keep the
\* original extension, an absent negotiated type included.
C11_NameFormula ==
    probe.op = "_getName" =>
        probe.result = NameByFormula(probe.args.originalName, probe.args.name,
                                     probe.args.type, probe.args.refType)

\* C11, amended: _getName follows the formula with "image/png" standing for an
\* absent (undefined or empty) negotiated type: the extension is the original one
\* when that type equals the reference type and its subtype otherwise; a name
\* without "." only gets " (label)" appended.
C11_NameFormulaPngForAbsent ==
    probe.op = "_getName" =>
        probe.result = NameByFormula(probe.args.originalName, probe.args.name,
                                     IF Truthy(probe.args.type) THEN probe.args.type ELSE PNG,
                                     probe.args.refType)

\* photo.jpg of type image/jpeg with no negotiated type: the name ends in .png
C11_Witness ==
    /\ probe.op = "_getName"
    /\ probe.args.originalName = <<"photo", ".", "jpg">>
    /\ probe.args.type = Undefined
    /\ probe.args.refType = JPEG
    /\ probe.result = <<"photo", " (", "small", ")", ".", "png">>

----------------------------------------------------------------------------
\* Properties of the producers

\* The deferred result the i-th call of _generateScaledImage returned
EffortOf(i) == promises[invocations[i].scalingEffort]

\* The blob _dataUriToBlob makes of a Data-URI it can decode
BlobOf(dataUri) == _dataUriToBlob(dataUri).value

\* C2: once generate has failed, the result of that call is rejected with the
\* configured failureText, whatever includeExif and the types are, and it has not
\* been and is never resolved.
C2_RenderFailureRejects ==
    \A i \in 1..Len(invocations) :
        invocations[i].generate = "failure" =>
            /\ EffortOf(i).state = "rejected"
            /\ EffortOf(i).failureArgs = <<spec.failureText>>
            /\ EffortOf(i).successes = 0

\* A failed render of a JPEG from a JPEG with includeExif set
C2_Witness ==
    \E i \in 1..Len(invocations) :
        /\ invocations[i].generate = "failure"
        /\ invocations[i].includeExif
        /\ EffortOf(i).state = "rejected"

\* C3: after a successful render on the EXIF path, a failed read and a failed
\* transplant both leave the result resolved with the blob of the rendered Data-URI,
\* and never rejected.
C3_ExifFailureStillResolves ==
    \A i \in 1..Len(invocations) :
        (/\ invocations[i].generate = "success"
         /\ invocations[i].includeExif
         /\ (invocations[i].reader = "error" \/ invocations[i].restore = "threw"))
            => /\ EffortOf(i).state = "resolved"
               /\ EffortOf(i).successArgs = <<BlobOf(invocations[i].rendered)>>
               /\ EffortOf(i).failures = 0

\* Whether a callback of the i-th call is still to come
Awaited(i) == invocations[i].generate = "pending" \/ invocations[i].reader = "reading"

\* C4: a call whose rendering engine and file read have delivered their callbacks
\* has a result that is resolved or rejected; it is not left pending.
C4_SettlesOnceCallbacksDelivered ==
    \A i \in 1..Len(invocations) :
        ~Awaited(i) => EffortOf(i).state \in {"resolved", "rejected"}

\* C5: success and failure are signalled on a scalingEffort at most once in total.
C5_AtMostOneSignal ==
    \A p \in 1..Len(promises) : promises[p].successes + promises[p].failures <= 1

\* A result signalled on the EXIF path, after the render and the read have both
\* called back
C5_Witness ==
    \E i \in 1..Len(invocations) :
        /\ invocations[i].generate = "success"
        /\ invocations[i].reader = "load"
        /\ EffortOf(i).successes = 1

\* What the callbacks delivered to one call make of its result when it runs alone
AloneResult(v) ==
    IF v.generate = "pending" THEN NewPromise
    ELSE IF v.generate = "failure" THEN Promise_failure(NewPromise, v.spec.failedText)
    ELSE IF ~v.includeExif THEN Promise_success(NewPromise, BlobOf(toDataURL(v.spec.type)))
    ELSE IF v.reader = "error" THEN Promise_success(NewPromise, BlobOf(toDataURL(v.spec.type)))
    ELSE IF v.restore = "returned" /\ ~_dataUriToBlob(v.scaledImageDataUri).threw
    THEN Promise_success(NewPromise, BlobOf(v.scaledImageDataUri))
    ELSE NewPromise

\* C6: whatever the other calls do, the result of each call is the one its own
\* callbacks give it when it runs alone, and no two calls share a result object.
C6_ProducersIsolated ==
    /\ \A i \in 1..Len(invocations) : EffortOf(i) = AloneResult(invocations[i])
    /\ \A i, j \in 1..Len(invocations) :
          i # j => invocations[i].scalingEffort # invocations[j].scalingEffort

\* Two variants of one reference: the render of one has failed, the other is resolved
C6_Witness ==
    \E i, j \in 1..Len(invocations) :
        /\ invocations[i].producer # invocations[j].producer
        /\ invocations[i].sourceFile = invocations[j].sourceFile
        /\ invocations[i].generate = "failure"
        /\ EffortOf(i).state = "rejected"
        /\ EffortOf(j).state = "resolved"

\* C9: a call of getFileRecords starts nothing: it leaves the calls of
\* _generateScaledImage and their results as they were.
C9_GetFileRecordsStartsNothing ==
    [][Len(returned') > Len(returned)
        => (invocations' = invocations /\ promises' = promises)]_vars

\* Scaled records have been returned and no producer has run
C9_Witness ==
    /\ \E c \in 1..Len(returned) : ScaledOf(returned[c].records) # <<>>
    /\ invocations = <<>>
    /\ promises = <<>>

\* C13: a result is rejected only when the generate call of its invocation failed;
\* a failed read, a failed transplant and a failed encoding never reject it.
C13_RejectedOnlyByRenderFailure ==
    \A i \in 1..Len(invocations) :
        /\ (EffortOf(i).state = "rejected" \/ EffortOf(i).failures > 0)
              => invocations[i].generate = "failure"
        /\ (\/ invocations[i].reader = "error"
            \/ invocations[i].restore = "threw"
            \/ invocations[i].step = "Aborted")
              => (EffortOf(i).state # "rejected" /\ EffortOf(i).failures = 0)

\* One result rejected by a failed render, while another call's transplant handed
\* back a text the codec could not encode and its result is not rejected
C13_Witness ==
    \E i, j \in 1..Len(invocations) :
        /\ EffortOf(i).state = "rejected"
        /\ invocations[i].generate = "failure"
        /\ invocations[j].restore = "returned"
        /\ invocations[j].step = "Aborted"
        /\ EffortOf(j).state = "pending"

\* Whether the three conditions of EXIF preservation hold for a call
ExifRequested(v) ==
    v.spec.includeExif /\ v.sourceFile.type = JPEG /\ v.spec.type = JPEG

\* C14: the source is read and the transplant called only in a call whose
\* includeExif option is set, whose source is an image/jpeg and whose negotiated
\* type is image/jpeg; in any other call a successful render is encoded at once,
\* with no read and no transplant.
C14_ExifPathNeedsAllThree ==
    \A i \in 1..Len(invocations) :
        LET v == invocations[i]
        IN  /\ (v.step = "ExifMerging" \/ v.reader # "none" \/ v.restore # "none")
                  => ExifRequested(v)
            /\ (v.generate = "success" /\ ~ExifRequested(v))
                  => (v.reader = "none" /\ v.restore = "none" /\ v.blobs = 1)

\* includeExif is set and the source is a JPEG, but the negotiated type is
\* image/png: the render was encoded with no read
C14_Witness ==
    \E i \in 1..Len(invocations) :
        LET v == invocations[i]
        IN  /\ v.spec.includeExif
            /\ v.sourceFile.type = JPEG
            /\ v.spec.type = PNG
            /\ v.generate = "success"
            /\ v.reader = "none"
            /\ EffortOf(i).state = "resolved"

\* The step of the i-th call before a transition: Idle when the call is not yet made
StepBefore(i) == IF i <= Len(invocations) THEN invocations[i].step ELSE "Idle"

\* How many times the i-th call had run the codec before a transition
BlobsBefore(i) == IF i <= Len(invocations) THEN invocations[i].blobs ELSE 0

\* The steps one transition may take a call through; the codec runs inside the
\* transition that ends in Resolved, or in Aborted when an exception ends the callback
StepOrder ==
    { <<"Idle", "Rendering">>,
      <<"Rendering", "ExifMerging">>, <<"Rendering", "Resolved">>,
      <<"Rendering", "Rejected">>, <<"Rendering", "Aborted">>,
      <<"ExifMerging", "Resolved">>, <<"ExifMerging", "Aborted">> }

\* C15: every call goes from Idle to Rendering, then to ExifMerging and on, or
\* straight on; the codec is started only by a transition that finds or makes the
\* render successful, on the EXIF path only by one that settles the read, and a
\* result is resolved only by a transition in which the codec has made the blob
\* it carries.
C15_StepsInOrder ==
    [][\A i \in 1..Len(invocations') :
          LET w == invocations'[i]
          IN  /\ (StepBefore(i) # w.step) => (<<StepBefore(i), w.step>> \in StepOrder)
              /\ (w.blobs > BlobsBefore(i)) =>
                    /\ StepBefore(i) \in {"Rendering", "ExifMerging"}
                    /\ w.generate = "success"
                    /\ ExifRequested(w) =>
                          (StepBefore(i) = "ExifMerging" /\ w.reader \in {"load", "error"})
              /\ (w.step = "Resolved" /\ StepBefore(i) # "Resolved") =>
                    /\ w.blobs = BlobsBefore(i) + 1
                    /\ ~_dataUriToBlob(w.scaledImageDataUri).threw
                    /\ promises'[w.scalingEffort].successArgs
                          = <<BlobOf(w.scaledImageDataUri)>>
              /\ (promises'[w.scalingEffort].state = "resolved") => w.step = "Resolved"
      ]_vars

\* A call that went through ExifMerging and is resolved after one run of the codec
C15_Witness ==
    \E i \in 1..Len(invocations) :
        /\ invocations[i].step = "Resolved"
        /\ invocations[i].reader = "load"
        /\ invocations[i].restore = "returned"
        /\ invocations[i].blobs = 1
        /\ EffortOf(i).state = "resolved"

\* The blobs of the Data-URIs the transplant can hand back for a call, those of them
\* the codec can encode
MergedBlobs(v) ==
    { BlobOf(r.value) :
        r \in { q \in ExifRestorer_restore(readAsDataURL(v.sourceFile), v.rendered) :
                  ~q.threw /\ ~_dataUriToBlob(q.value).threw } }

\* C16: a result resolved after the transplant has returned carries the blob of
\* the Data-URI the transplant returned, not the blob of the Data-URI read from
\* the canvas.
C16_MergedUriEncoded ==
    \A i \in 1..Len(invocations) :
        (invocations[i].restore = "returned" /\ EffortOf(i).state = "resolved") =>
            /\ EffortOf(i).successArgs[1] \in MergedBlobs(invocations[i])
            /\ EffortOf(i).successArgs # <<BlobOf(invocations[i].rendered)>>

\* A JPEG of a JPEG with includeExif: read, transplanted and resolved
C16_Witness ==
    \E i \in 1..Len(invocations) :
        /\ ExifRequested(invocations[i])
        /\ invocations[i].restore = "returned"
        /\ EffortOf(i).state = "resolved"
        /\ Len(EffortOf(i).successArgs[1].bytes) > Len(BlobOf(invocations[i].rendered).bytes)

\* C17: two invocations of the same producer are two calls of the rendering engine
\* with two results, and the result of each is what its own callbacks make of it,
\* whatever became of the other.
C17_ReinvocationStartsAfresh ==
    \A i, j \in 1..Len(invocations) :
        (i < j /\ invocations[i].producer = invocations[j].producer) =>
            /\ invocations[i].scalingEffort # invocations[j].scalingEffort
            /\ EffortOf(i) = AloneResult(invocations[i])
            /\ EffortOf(j) = AloneResult(invocations[j])

\* One producer invoked twice: the first result is rejected, the second is resolved
C17_Witness ==
    \E i, j \in 1..Len(invocations) :
        /\ i < j
        /\ invocations[i].producer = invocations[j].producer
        /\ EffortOf(i).state = "rejected"
        /\ invocations[j].generate = "success"
        /\ EffortOf(j).state = "resolved"

----------------------------------------------------------------------------
\* Properties of the binary codec

\* The places (1-based) of a lexeme in a text
PlacesOf(text, lexeme) == {i \in 1..Len(text) : text[i] = lexeme}

\* The place of the first occurrence of a lexeme the text contains
FirstPlace(text, lexeme) ==
    CHOOSE i \in PlacesOf(text, lexeme) : \A j \in PlacesOf(text, lexeme) : i <= j

\* The text before the first occurrence of a lexeme, the whole text without one
Before(text, lexeme) ==
    IF PlacesOf(text, lexeme) = {} THEN text
    ELSE SubSeq(text, 1, FirstPlace(text, lexeme) - 1)

\* All of the text after the first occurrence of a lexeme the text contains
After(text, lexeme) == SubSeq(text, FirstPlace(text, lexeme) + 1, Len(text))

\* The codec that splits on the first comma only: the header is the text before it,
\* the payload all of the text after it
FirstCommaCodec(dataUri) ==
    LET header  == Before(dataUri, ",")
        payload == After(dataUri, ",")
        decoded == IF PlacesOf(header, "base64") # {} THEN atob(payload)
                   ELSE decodeURI(payload)
    IN  IF decoded.threw THEN Thrown
        ELSE Returned([bytes |-> decoded.value,
                       type  |-> Before(After(header, ":"), ";")])

\* C18: for a Data-URI with a comma and a ":" in its header, _dataUriToBlob gives
\* what the codec that splits on the first comma only gives: the blob of all the
\* text after the first comma, later commas included.
C18_SplitsOnFirstCommaOnly ==
    (/\ probe.op = "_dataUriToBlob"
     /\ PlacesOf(probe.args.dataUri, ",") # {}
     /\ PlacesOf(Before(probe.args.dataUri, ","), ":") # {})
        => probe.result = FirstCommaCodec(probe.args.dataUri)

====
